---- MODULE Spec2Model ----
(***************************************************************************)
(* covid_pipeline: the schema normalizer (_canon), the asset checks and    *)
(* the two rolling-window metrics, modelled from the Python sources.       *)
(*                                                                         *)
(* A DataFrame is a sequence of rows (records) in index order.  A float    *)
(* cell is a record [k, n, d]: k = "num" is the exact rational n/d (d > 0, *)
(* lowest terms), "nan" the missing marker (NaN / pd.NA), "inf" / "ninf"   *)
(* the IEEE infinities, "str" a text that does not parse as a number.      *)
(* Floating-point rounding is not modelled: arithmetic is exact.           *)
(***************************************************************************)
EXTENDS Integers, Sequences, FiniteSets

VARIABLES
    modulo,     \* which module of the package is being exercised
    datos,      \* metricas: the datos_procesados DataFrame handed to a metric
    ejecutado,  \* metricas: the metric that produced `salida` ("ninguno" before,
                \* "error" when the run raised)
    salida,     \* metricas: the DataFrame the metric returned
    csv,        \* datos: the table as downloaded, [columns, rows]
    canonizado, \* datos: TRUE once _canon has been called on the frame read from csv
    arg,        \* datos: the caller's DataFrame object after the call of _canon
    ret,        \* datos: the DataFrame _canon returned
    crudo,      \* datos: the leer_datos DataFrame handed to datos_procesados,
                \* [cols, rows]
    procesado,  \* datos: how the call of datos_procesados ended ("ninguno"
                \* before), the caller's DataFrame after it, the columns the
                \* KeyError names, the rows returned
    check,      \* checks: the asset check being run
    tabla,      \* checks: the DataFrame of the checked asset, [cols, rows]
    resultado   \* checks: the AssetCheckResult returned

vars_metricas == <<datos, ejecutado, salida>>
vars_datos == <<csv, canonizado, arg, ret, crudo, procesado>>
vars_checks == <<check, tabla, resultado>>
vars == <<modulo, datos, ejecutado, salida, csv, canonizado, arg, ret,
          crudo, procesado, check, tabla, resultado>>

(***************************************************************************)
(* Bounds of the model.                                                    *)
(***************************************************************************)
MaxFilas == 8       \* rows of the base country in a metric input
MaxOtras == 1       \* rows of the comparison country in a metric input
MaxSinPob == 1      \* rows of a metric input that carry population 0
MaxCols == 2        \* columns of a downloaded table
MaxPad == 2         \* characters put in front of a column name
MaxFilasCheck == 2  \* rows of a checked DataFrame
MaxFilasCrudas == 3 \* rows of a leer_datos frame handed to datos_procesados

(***************************************************************************)
(* Program constants.                                                      *)
(***************************************************************************)
PAIS_BASE == "Ecuador"
PAIS_COMPARATIVO == "Peru"
PAISES == <<PAIS_BASE, PAIS_COMPARATIVO>>
POR_CIEN_MIL == 100000      \* incidence is per 100 000 inhabitants
VENTANA_INC == 7            \* rolling(7, ...) of the incidence
MIN_PERIODS_INC == 7        \* ... min_periods=7
VENTANA_SUM == 7            \* rolling(7, ...) of the weekly cases
MIN_PERIODS_SUM == 1        \* ... min_periods=1
SHIFT_PREV == 7             \* shift(7): the previous week

(***************************************************************************)
(* Float cells.                                                            *)
(***************************************************************************)
Abs(x) == IF x < 0 THEN -x ELSE x

RECURSIVE Gcd(_, _)
Gcd(a, b) == IF b = 0 THEN a ELSE Gcd(b, a % b)

NaN == [k |-> "nan", n |-> 0, d |-> 1]
Inf == [k |-> "inf", n |-> 0, d |-> 1]
NInf == [k |-> "ninf", n |-> 0, d |-> 1]

\* the rational a/b (b # 0) in lowest terms with a positive denominator
Num(a, b) ==
    IF b = 1 THEN [k |-> "num", n |-> a, d |-> 1]
    ELSE LET g == Gcd(Abs(a), Abs(b))
             s == IF b < 0 THEN -1 ELSE 1
         IN  [k |-> "num", n |-> (s * a) \div g, d |-> (s * b) \div g]

Entero(a) == [k |-> "num", n |-> a, d |-> 1]

isna(v) == v.k = "nan"
notna(v) == ~isna(v)

\* float addition of two numbers
Suma(x, y) ==
    IF x.d = y.d THEN Num(x.n + y.n, x.d)
    ELSE Num(x.n * y.d + y.n * x.d, x.d * y.d)

\* float division x / y as numpy does it: no exception, x/0 is +-inf, 0/0 is NaN,
\* NaN propagates
Div(x, y) ==
    IF isna(x) \/ isna(y) THEN NaN
    ELSE IF x.k = "num" /\ y.k = "num" THEN
        IF y.n # 0 THEN Num(x.n * y.d, x.d * y.n)
        ELSE IF x.n = 0 THEN NaN
        ELSE IF x.n > 0 THEN Inf ELSE NInf
    ELSE NaN

Mul(x, c) == IF x.k = "num" THEN Num(x.n * c, x.d) ELSE x

\* faulty variant: the infinities are left in place
ReplaceInf_sin(v) == v

\* Series.replace([inf, -inf], pd.NA)
ReplaceInf(v) == IF v.k \in {"inf", "ninf"} THEN NaN ELSE v

\* Series.replace({0: pd.NA})
ReplaceZero(v) == IF v.k = "num" /\ v.n = 0 THEN NaN ELSE v

\* a text cell that does not parse as a number or a date
Texto(t) == [k |-> "str", n |-> t, d |-> 1]

\* no AssetCheckResult yet
SinResultado ==
    [hecho |-> FALSE, passed |-> FALSE, faltan |-> <<>>, n |-> 0, nota |-> "",
     evaluadas |-> 0]

\* datos_procesados has not been called
SinProcesar ==
    [estado |-> "ninguno", df |-> [cols |-> {}, rows |-> <<>>], faltan |-> <<>>,
     filas |-> <<>>]

(***************************************************************************)
(* Sequences.                                                              *)
(***************************************************************************)
RECURSIVE SumSeq(_)
SumSeq(s) == IF s = <<>> THEN Entero(0) ELSE Suma(Head(s), SumSeq(Tail(s)))

Ultimos(s, w) == IF Len(s) <= w THEN s ELSE SubSeq(s, Len(s) - w + 1, Len(s))

\* the cells of column `col` at the positions `idx` that are not missing
RECURSIVE Observados(_, _)
Observados(col, idx) ==
    IF idx = <<>> THEN <<>>
    ELSE (IF notna(col[Head(idx)]) THEN <<col[Head(idx)]>> ELSE <<>>)
         \o Observados(col, Tail(idx))

\* a column given by its cell at each index 1..n, as a sequence
Columna(f, n) == SubSeq(f, 1, n)

(***************************************************************************)
(* pandas operations used by metricas.py.                                  *)
(***************************************************************************)
\* order of the values of `location` (string comparison)
LocOrd(loc) == IF loc = "Ecuador" THEN 1 ELSE 2

ClaveMenor(a, b) ==
    \/ LocOrd(a.location) < LocOrd(b.location)
    \/ a.location = b.location /\ a.date < b.date

\* insert row r into the sorted sequence s, after every row that is not greater
RECURSIVE Insertar(_, _)
Insertar(s, r) ==
    IF s = <<>> THEN <<r>>
    ELSE IF ClaveMenor(r, Head(s)) THEN <<r>> \o s
    ELSE <<Head(s)>> \o Insertar(Tail(s), r)

\* faulty variant: the frame is left in the order it came
sort_values_sin(df) == df

\* df.sort_values(["location", "date"]): stable, ascending
RECURSIVE sort_values(_)
sort_values(df) ==
    IF df = <<>> THEN <<>>
    ELSE Insertar(sort_values(SubSeq(df, 1, Len(df) - 1)), df[Len(df)])

\* the index positions 1..i of df whose row is in the group `loc`, ascending
RECURSIVE IndicesGrupo(_, _, _)
IndicesGrupo(df, loc, i) ==
    IF i = 0 THEN <<>>
    ELSE IndicesGrupo(df, loc, i - 1) \o (IF df[i].location = loc THEN <<i>> ELSE <<>>)

\* faulty variant: no grouping: every row up to i
groupby_sin(df, i) == [j \in 1..i |-> j]

\* df.groupby("location"): the rows of i's group up to and including i
groupby(df, i) == IndicesGrupo(df, df[i].location, i)

\* s.rolling(w, min_periods=m).sum() at the row whose group prefix is g
rolling_sum(col, g, w, m) ==
    LET obs == Observados(col, Ultimos(g, w))
    IN  IF Len(obs) >= m THEN SumSeq(obs) ELSE NaN

\* s.rolling(w, min_periods=m).mean() at the row whose group prefix is g
rolling_mean(col, g, w, m) ==
    LET obs == Observados(col, Ultimos(g, w))
    IN  IF Len(obs) >= m THEN Div(SumSeq(obs), Entero(Len(obs))) ELSE NaN

\* faulty variant: the shift is one row short
shift_corto(col, g, k) == IF Len(g) > k - 1 THEN col[g[Len(g) - (k - 1)]] ELSE NaN

\* groupby(...)[col].shift(k) at the row whose group prefix is g
shift(col, g, k) == IF Len(g) > k THEN col[g[Len(g) - k]] ELSE NaN

\* the first i rows of df, in order, whose cell in `col` (same index) is not missing
RECURSIVE Filtrar(_, _, _)
Filtrar(df, col, i) ==
    IF i = 0 THEN <<>>
    ELSE Filtrar(df, col, i - 1) \o (IF notna(col[i]) THEN <<df[i]>> ELSE <<>>)

(***************************************************************************)
(* metricas.py                                                             *)
(***************************************************************************)
\* line 29: (new_cases / population.replace({0: pd.NA})) * 100000
incidencia_diaria(df) ==
    Columna([i \in 1..Len(df) |->
        Mul(Div(df[i].new_cases, ReplaceZero(df[i].population)), POR_CIEN_MIL)], Len(df))

\* lines 32-35: the 7-row rolling mean of the daily incidence within each location
incidencia_7d(df) ==
    LET diaria == incidencia_diaria(df)
    IN  Columna([i \in 1..Len(df) |->
            rolling_mean(diaria, groupby(df, i), VENTANA_INC, MIN_PERIODS_INC)], Len(df))

metrica_incidencia_7d(datos_procesados) ==
    LET df == sort_values(datos_procesados)
        inc == incidencia_7d(df)
        filas == [i \in 1..Len(df) |->
                    [date |-> df[i].date, location |-> df[i].location,
                     incidencia_7d |-> inc[i]]]
    IN  Filtrar(filas, inc, Len(df))

\* lines 68-70: the rolling sum of new_cases over up to 7 rows of the location
casos_semana(df) ==
    LET nc == [i \in 1..Len(df) |-> df[i].new_cases]
    IN  Columna([i \in 1..Len(df) |->
            rolling_sum(nc, groupby(df, i), VENTANA_SUM, MIN_PERIODS_SUM)], Len(df))

\* line 73: casos_semana 7 rows earlier within the location
casos_semana_prev(df, cs) ==
    Columna([i \in 1..Len(df) |-> shift(cs, groupby(df, i), SHIFT_PREV)], Len(df))

\* lines 76-77
factor_crec_7d(cs, prev) ==
    Columna([i \in 1..Len(cs) |-> ReplaceInf(Div(cs[i], prev[i]))], Len(cs))

\* lines 80-82: dropna over (date, location, casos_semana, factor_crec_7d);
\* date and location are never missing in a datos_procesados frame
metrica_factor_crec_7d(datos_procesados) ==
    LET df == datos_procesados
        cs == casos_semana(df)
        fc == factor_crec_7d(cs, casos_semana_prev(df, cs))
        filas == [i \in 1..Len(df) |->
                    [semana_fin |-> df[i].date, location |-> df[i].location,
                     casos_semana |-> cs[i], factor_crec_7d |-> fc[i]]]
        completa == [i \in 1..Len(df) |-> IF isna(cs[i]) THEN NaN ELSE fc[i]]
    IN  Filtrar(filas, completa, Len(df))

(***************************************************************************)
(* The metric inputs: the rows of a datos_procesados frame.                *)
(***************************************************************************)
NuevosCasos == {0, 1}

\* how the dates of a country follow its rows in the frame: ascending day by day,
\* descending (the frame is newest first), ascending with a day missing between rows
EsquemasFecha == {"asc", "desc", "salto"}

Fecha(e, k) ==
    CASE e = "asc" -> k
      [] e = "desc" -> 40 - k
      [] e = "salto" -> 2 * k - 1

FilasDe(df, loc) == Len(IndicesGrupo(df, loc, Len(df)))

\* the rows of loc in df carry the dates of scheme e
Conforme(df, loc, e) ==
    LET g == IndicesGrupo(df, loc, Len(df))
    IN  \A k \in 1..Len(g) : df[g[k]].date = Fecha(e, k)

Fila(loc, fecha, nc, pob) ==
    [location |-> loc, date |-> fecha, new_cases |-> Entero(nc),
     population |-> Entero(pob)]

InitMetricas ==
    /\ modulo = "metricas"
    /\ datos = <<>>
    /\ ejecutado = "ninguno"
    /\ salida = <<>>
    /\ csv = [columns |-> <<>>, rows |-> <<>>]
    /\ canonizado = FALSE
    /\ arg = [columns |-> <<>>, rows |-> <<>>]
    /\ ret = [columns |-> <<>>, rows |-> <<>>]
    /\ crudo = [cols |-> {}, rows |-> <<>>]
    /\ procesado = SinProcesar
    /\ check = "ninguno"
    /\ tabla = [cols |-> {}, rows |-> <<>>]
    /\ resultado = SinResultado

\* one more row of the base country reaches the frame, its population known
LeerFilaBase ==
    /\ modulo = "metricas"
    /\ ejecutado = "ninguno"
    /\ LET k == FilasDe(datos, PAIS_BASE) + 1
       IN  /\ k <= MaxFilas
           /\ \E nc \in NuevosCasos, e \in EsquemasFecha :
                /\ Conforme(datos, PAIS_BASE, e)
                /\ datos' = Append(datos, Fila(PAIS_BASE, Fecha(e, k), nc, 100000))
    /\ UNCHANGED <<modulo, ejecutado, salida, vars_datos, vars_checks>>

SinPoblacion(df) == Cardinality({i \in 1..Len(df) : df[i].population.n = 0})

\* one more row of the base country reaches the frame, its population reported as 0
LeerFilaSinPoblacion ==
    /\ modulo = "metricas"
    /\ ejecutado = "ninguno"
    /\ SinPoblacion(datos) < MaxSinPob
    /\ LET k == FilasDe(datos, PAIS_BASE) + 1
       IN  /\ k <= MaxFilas
           /\ \E nc \in NuevosCasos, e \in EsquemasFecha :
                /\ Conforme(datos, PAIS_BASE, e)
                /\ datos' = Append(datos, Fila(PAIS_BASE, Fecha(e, k), nc, 0))
    /\ UNCHANGED <<modulo, ejecutado, salida, vars_datos, vars_checks>>

\* one more row of the comparison country; its rows reach the frame as one block
LeerFilaOtra ==
    /\ modulo = "metricas"
    /\ ejecutado = "ninguno"
    /\ LET k == FilasDe(datos, PAIS_COMPARATIVO) + 1
       IN  /\ k <= MaxOtras
           /\ k > 1 => datos[Len(datos)].location = PAIS_COMPARATIVO
           /\ datos' = Append(datos, Fila(PAIS_COMPARATIVO, Fecha("asc", k), 1, 100000))
    /\ UNCHANGED <<modulo, ejecutado, salida, vars_datos, vars_checks>>

\* what a run of metrica_incidencia_7d can end in. With every population non-zero
\* line 29 leaves the column numeric and the run returns its table. With a
\* population of 0, replace({0: pd.NA}) puts pd.NA in the column: pandas either
\* keeps the quotient numeric, the cell missing (the rolling mean skips it), or
\* makes it an object column, which rolling(...).mean() refuses with an exception
\* (no table is returned). Which one depends on the pandas build; both are kept.
Salidas_incidencia(datos_procesados) ==
    {[estado |-> "incidencia", filas |-> metrica_incidencia_7d(datos_procesados)]}
    \cup (IF SinPoblacion(datos_procesados) > 0
          THEN {[estado |-> "error", filas |-> <<>>]}
          ELSE {})

Run_metrica_incidencia_7d ==
    /\ modulo = "metricas"
    /\ ejecutado = "ninguno"
    /\ \E s \in Salidas_incidencia(datos) :
        /\ ejecutado' = s.estado
        /\ salida' = s.filas
    /\ UNCHANGED <<modulo, datos, vars_datos, vars_checks>>

Run_metrica_factor_crec_7d ==
    /\ modulo = "metricas"
    /\ ejecutado = "ninguno"
    /\ ejecutado' = "factor"
    /\ salida' = metrica_factor_crec_7d(datos)
    /\ UNCHANGED <<modulo, datos, vars_datos, vars_checks>>

\* both metrics over frames with known populations, the comparison country's rows
\* anywhere among the base country's
NextMetricas ==
    \/ LeerFilaBase
    \/ LeerFilaOtra
    \/ Run_metrica_incidencia_7d
    \/ Run_metrica_factor_crec_7d

SpecMetricas == InitMetricas /\ [][NextMetricas]_vars

\* the incidence over frames of the base country with rows of population 0
NextIncidencia ==
    \/ LeerFilaBase
    \/ LeerFilaSinPoblacion
    \/ Run_metrica_incidencia_7d

SpecIncidencia == InitMetricas /\ [][NextIncidencia]_vars

(***************************************************************************)
(* Properties of metricas.py.                                              *)
(***************************************************************************)
\* the rows of df of location loc, in order
RECURSIVE FilasLoc(_, _)
FilasLoc(df, loc) ==
    IF df = <<>> THEN <<>>
    ELSE (IF Head(df).location = loc THEN <<Head(df)>> ELSE <<>>)
         \o FilasLoc(Tail(df), loc)

\* the index in df of the row of location loc and date fecha
IndiceDe(df, loc, fecha) ==
    CHOOSE i \in 1..Len(df) : df[i].location = loc /\ df[i].date = fecha

\* the sum of new_cases over the rows of df at the indices idx
RECURSIVE SumaCasos(_, _)
SumaCasos(df, idx) ==
    IF idx = <<>> THEN 0 ELSE df[Head(idx)].new_cases.n + SumaCasos(df, Tail(idx))

\* the rows of location loc up to index i, in frame order, and the 7 of them ending
\* w rows before i
Previas(df, i) == IndicesGrupo(df, df[i].location, i)
SemanaDe(df, i, w) ==
    LET g == Previas(df, i)
    IN  SubSeq(g, IF Len(g) - w > 7 THEN Len(g) - w - 6 ELSE 1, Len(g) - w)

C2_PrimeraFilaVentanaUno ==
    ejecutado = "factor" =>
        \A loc \in {PAIS_BASE, PAIS_COMPARATIVO} :
            LET fs == FilasLoc(salida, loc)
            IN  fs # <<>> =>
                    fs[1].casos_semana
                        = datos[IndiceDe(datos, loc, fs[1].semana_fin)].new_cases

\* C2 amended: no row among an entity's first 7 rows of the frame is emitted (an
\* entity with fewer than 8 rows never appears), and every emitted row, the first
\* one included, has casos_semana equal to the sum of new_cases over that row and
\* the 6 rows of the entity before it.
C2_PrimeraFilaSemanaCompleta ==
    ejecutado = "factor" =>
        \A r \in 1..Len(salida) :
            LET i == IndiceDe(datos, salida[r].location, salida[r].semana_fin)
            IN  /\ Len(Previas(datos, i)) >= 8
                /\ salida[r].casos_semana = Entero(SumaCasos(datos, SemanaDe(datos, i, 0)))

\* C2 witness: an entity's first emitted row whose weekly sum is not its own
\* new_cases, beside an entity with fewer than 8 rows that is absent
C2_Witness ==
    /\ ejecutado = "factor"
    /\ FilasLoc(datos, PAIS_COMPARATIVO) # <<>>
    /\ FilasLoc(salida, PAIS_COMPARATIVO) = <<>>
    /\ LET fs == FilasLoc(salida, PAIS_BASE)
       IN  /\ fs # <<>>
           /\ fs[1].casos_semana
                # datos[IndiceDe(datos, PAIS_BASE, fs[1].semana_fin)].new_cases

\* the rows of df of row i's location dated no later than row i
Rango(df, i) ==
    {j \in 1..Len(df) : df[j].location = df[i].location /\ df[j].date <= df[i].date}

\* the daily incidence of a row, exactly
Diaria(fila) == Mul(Div(fila.new_cases, fila.population), 100000)

RECURSIVE SumaDiarias(_, _)
SumaDiarias(df, js) ==
    IF js = {} THEN Entero(0)
    ELSE LET j == CHOOSE x \in js : TRUE
         IN  Suma(Diaria(df[j]), SumaDiarias(df, js \ {j}))

\* C3: metrica_incidencia_7d emits no row for an entity's first 6 rows in date order,
\* and the value at the entity's 7th row by date is the arithmetic mean of its first
\* 7 daily incidences (rows are counted, not calendar days); that row is emitted
\* exactly when the 7 daily incidences are defined.
C3_IncidenciaDesdeSeptimaFila ==
    ejecutado = "incidencia" =>
        /\ \A r \in 1..Len(salida) :
            LET i == IndiceDe(datos, salida[r].location, salida[r].date)
            IN  /\ Cardinality(Rango(datos, i)) >= 7
                /\ Cardinality(Rango(datos, i)) = 7 =>
                    /\ \A j \in Rango(datos, i) : datos[j].population.n # 0
                    /\ salida[r].incidencia_7d
                        = Div(SumaDiarias(datos, Rango(datos, i)), Entero(7))
        /\ \A i \in 1..Len(datos) :
            (/\ Cardinality(Rango(datos, i)) = 7
             /\ \A j \in Rango(datos, i) : datos[j].population.n # 0)
            => \E r \in 1..Len(salida) :
                /\ salida[r].location = datos[i].location
                /\ salida[r].date = datos[i].date

\* C3 witness: a 7th row emitted for a frame that is not in date order and whose
\* dates are not consecutive days
C3_Witness ==
    /\ ejecutado = "incidencia"
    /\ salida # <<>>
    /\ \E i \in 1..Len(datos) :
        /\ Cardinality(Rango(datos, i)) = 7
        /\ \E r \in 1..Len(salida) : salida[r].date = datos[i].date
        /\ \E j \in Rango(datos, i) : j > i

VentanaDe(df, i) ==
    {j \in Rango(df, i) :
        Cardinality({k \in Rango(df, i) : df[k].date > df[j].date}) < VENTANA_INC}

\* the rows of a window whose daily incidence is defined
Definidas(df, js) == {j \in js : df[j].population.n # 0}

\* C11: a row with population = 0 has an undefined daily incidence that is left
\* out of the rolling mean and is not counted as zero: every emitted incidencia_7d
\* is the mean of the defined daily incidences of its window, and the run of
\* metrica_incidencia_7d raises no exception.
C11_PoblacionCeroIndefinida ==
    /\ ejecutado # "error"
    /\ ejecutado = "incidencia" =>
        \A r \in 1..Len(salida) :
            LET i == IndiceDe(datos, salida[r].location, salida[r].date)
                def == Definidas(datos, VentanaDe(datos, i))
            IN  /\ def # {}
                /\ salida[r].incidencia_7d
                    = Div(SumaDiarias(datos, def), Entero(Cardinality(def)))

\* a table as a set of rows
Registros(tbl) == {tbl[r] : r \in 1..Len(tbl)}

\* C12: metrica_factor_crec_7d computes over each entity's rows in ascending date
\* order whatever the order of the input rows: the emitted growth table, as a set
\* of rows, is the one computed from the frame sorted by (location, date), where
\* casos_semana sums the row and up to 6 rows before it by date and the previous
\* week is the casos_semana 7 positions earlier by date.
C12_FactorOrdenPorFecha ==
    ejecutado = "factor" =>
        Registros(salida) = Registros(metrica_factor_crec_7d(sort_values(datos)))

(***************************************************************************)
(* datos.py: the schema normalizer.                                        *)
(*                                                                         *)
(* A column name is a sequence of characters; "BOM" stands for the one     *)
(* character U+FEFF and " " for a whitespace character.                    *)
(***************************************************************************)
S_location == <<"l", "o", "c", "a", "t", "i", "o", "n">>
S_entity == <<"e", "n", "t", "i", "t", "y">>
S_country == <<"c", "o", "u", "n", "t", "r", "y">>
S_country_name == <<"c", "o", "u", "n", "t", "r", "y", "_", "n", "a", "m", "e">>
S_location_name == <<"l", "o", "c", "a", "t", "i", "o", "n", "_", "n", "a", "m", "e">>
S_place == <<"p", "l", "a", "c", "e">>
S_date == <<"d", "a", "t", "e">>
S_day == <<"d", "a", "y">>
S_new_cases == <<"n", "e", "w", "_", "c", "a", "s", "e", "s">>
S_new_cases_daily == <<"n", "e", "w", "_", "c", "a", "s", "e", "s", "_", "d", "a", "i", "l", "y">>
S_people_vaccinated == <<"p", "e", "o", "p", "l", "e", "_", "v", "a", "c", "c", "i", "n", "a", "t", "e", "d">>
S_people_with_at_least_one_dose == <<"p", "e", "o", "p", "l", "e", "_", "w", "i", "t", "h", "_", "a", "t", "_", "l", "e", "a", "s", "t", "_", "o", "n", "e", "_", "d", "o", "s", "e">>
S_population == <<"p", "o", "p", "u", "l", "a", "t", "i", "o", "n">>
S_pop == <<"p", "o", "p">>
S_iso_code == <<"i", "s", "o", "_", "c", "o", "d", "e">>

\* ALT, in the iteration order of the dictionary and of each list of candidates
ALT == <<
    [canon |-> S_location,
     candidates |-> <<S_location, S_entity, S_country, S_country_name, S_location_name, S_place>>],
    [canon |-> S_date,
     candidates |-> <<S_date, S_day>>],
    [canon |-> S_new_cases,
     candidates |-> <<S_new_cases, S_new_cases_daily>>],
    [canon |-> S_people_vaccinated,
     candidates |-> <<S_people_vaccinated, S_people_with_at_least_one_dose>>],
    [canon |-> S_population,
     candidates |-> <<S_population, S_pop>>]
>>

Mayusculas == <<"A", "B", "C", "D", "E", "F", "G", "H", "I", "J", "K", "L", "M", "N", "O", "P", "Q", "R", "S", "T", "U", "V", "W", "X", "Y", "Z">>
Minusculas == <<"a", "b", "c", "d", "e", "f", "g", "h", "i", "j", "k", "l", "m", "n", "o", "p", "q", "r", "s", "t", "u", "v", "w", "x", "y", "z">>

Canonicos == {ALT[k].canon : k \in 1..Len(ALT)}
Alias == UNION {{ALT[k].candidates[j] : j \in 1..Len(ALT[k].candidates)} : k \in 1..Len(ALT)}

\* str.strip(): whitespace off both ends (U+FEFF is not whitespace)
RECURSIVE lstrip(_)
lstrip(c) == IF c # <<>> /\ Head(c) = " " THEN lstrip(Tail(c)) ELSE c

RECURSIVE rstrip(_)
rstrip(c) ==
    IF c # <<>> /\ c[Len(c)] = " " THEN rstrip(SubSeq(c, 1, Len(c) - 1)) ELSE c

strip(c) == rstrip(lstrip(c))

\* c.replace(BOM, ""): every BOM character removed
RECURSIVE replace_bom(_)
replace_bom(c) ==
    IF c = <<>> THEN <<>>
    ELSE (IF Head(c) = "BOM" THEN <<>> ELSE <<Head(c)>>) \o replace_bom(Tail(c))

LowerChar(x) ==
    IF \E k \in 1..Len(Mayusculas) : Mayusculas[k] = x
    THEN Minusculas[CHOOSE k \in 1..Len(Mayusculas) : Mayusculas[k] = x]
    ELSE x

UpperChar(x) ==
    IF \E k \in 1..Len(Minusculas) : Minusculas[k] = x
    THEN Mayusculas[CHOOSE k \in 1..Len(Minusculas) : Minusculas[k] = x]
    ELSE x

\* .str.lower()
lower(c) == [k \in 1..Len(c) |-> LowerChar(c[k])]

\* lines 53-58: strip, then drop the BOM, then lower-case
LimpiarEncabezado(c) == lower(replace_bom(strip(c)))

Contiene(cols, c) == \E k \in 1..Len(cols) : cols[k] = c

\* line 63: next((c for c in candidates if c in df.columns), None); <<>> is None
RECURSIVE Found(_, _)
Found(candidates, cols) ==
    IF candidates = <<>> THEN <<>>
    ELSE IF Contiene(cols, Head(candidates)) THEN Head(candidates)
    ELSE Found(Tail(candidates), cols)

\* lines 61-65: rename_map as the function applied to a column name
Renombrar(cols, c) ==
    IF \E k \in 1..Len(ALT) :
            /\ Found(ALT[k].candidates, cols) = c
            /\ c # <<>>
            /\ c # ALT[k].canon
    THEN ALT[CHOOSE k \in 1..Len(ALT) :
                Found(ALT[k].candidates, cols) = c /\ c # ALT[k].canon].canon
    ELSE c

\* _canon(df): `df` is the caller's object after the call (line 53 assigns its
\* columns in place), `ret` the returned frame (line 68: renamed columns, same rows)
_canon(df) ==
    LET limpias == [k \in 1..Len(df.columns) |-> LimpiarEncabezado(df.columns[k])]
        mutado == [df EXCEPT !.columns = limpias]
    IN  [df |-> mutado,
         ret |-> [mutado EXCEPT
                    !.columns = [k \in 1..Len(limpias) |-> Renombrar(limpias, limpias[k])]]]

\* line 98: pd.read_csv builds the frame from the downloaded text
read_csv(texto) == [columns |-> texto.columns, rows |-> texto.rows]

(***************************************************************************)
(* The downloaded tables.                                                  *)
(***************************************************************************)
Casos == {"igual", "MAYUS", "Inicial"}

Caso(a, c) ==
    CASE c = "igual" -> a
      [] c = "MAYUS" -> [k \in 1..Len(a) |-> UpperChar(a[k])]
      [] c = "Inicial" -> [k \in 1..Len(a) |-> IF k = 1 THEN UpperChar(a[k]) ELSE a[k]]

\* what may stand in front of a name: whitespace and BOM characters, in any order
Prefijos == UNION {[1..n -> {" ", "BOM"}] : n \in 0..MaxPad}
Sufijos == {<<>>, <<" ">>}

Decorar(a, c, pre, post) == pre \o Caso(a, c) \o post

Decorados(a) ==
    {Decorar(a, c, pre, post) : c \in Casos, pre \in Prefijos, post \in Sufijos}

\* the first header of a table: any decorated alias, or a decorated foreign name
PrimerEncabezado == UNION {Decorados(a) : a \in Alias \cup {S_iso_code}}

\* the further headers of a table
OtroEncabezado ==
    {S_date, Caso(S_date, "Inicial"), S_day, Caso(S_day, "MAYUS"), S_entity,
     S_country, S_population, S_pop, S_iso_code}

FilasCsv == {<<>>, <<"fila2", "fila1">>}

InitDatos ==
    /\ modulo = "datos"
    /\ datos = <<>>
    /\ ejecutado = "ninguno"
    /\ salida = <<>>
    /\ \E filas \in FilasCsv : csv = [columns |-> <<>>, rows |-> filas]
    /\ canonizado = FALSE
    /\ arg = [columns |-> <<>>, rows |-> <<>>]
    /\ ret = [columns |-> <<>>, rows |-> <<>>]
    /\ crudo = [cols |-> {}, rows |-> <<>>]
    /\ procesado = SinProcesar
    /\ check = "ninguno"
    /\ tabla = [cols |-> {}, rows |-> <<>>]
    /\ resultado = SinResultado

\* one more column in the downloaded text (read_csv never yields two equal names)
LeerColumna ==
    /\ modulo = "datos"
    /\ ~canonizado
    /\ Len(csv.columns) < MaxCols
    /\ \E h \in (IF csv.columns = <<>> THEN PrimerEncabezado ELSE OtroEncabezado) :
        /\ ~Contiene(csv.columns, h)
        /\ csv' = [csv EXCEPT !.columns = Append(@, h)]
    /\ UNCHANGED <<modulo, canonizado, arg, ret, crudo, procesado,
                   vars_metricas, vars_checks>>

\* leer_datos lines 98-99: df = pd.read_csv(...); _canon(df)
Run_canon ==
    /\ modulo = "datos"
    /\ ~canonizado
    /\ LET r == _canon(read_csv(csv))
       IN  /\ arg' = r.df
           /\ ret' = r.ret
    /\ canonizado' = TRUE
    /\ UNCHANGED <<modulo, csv, crudo, procesado, vars_metricas, vars_checks>>

NextDatos ==
    \/ LeerColumna
    \/ Run_canon

SpecDatos == InitDatos /\ [][NextDatos]_vars

(***************************************************************************)
(* Properties of _canon.                                                   *)
(***************************************************************************)
\* C5: the output of _canon has no two columns with the same canonical name, and the
\* same rows in the same order as the input.
C5_CanonSinDuplicados ==
    canonizado =>
        /\ \A i, j \in 1..Len(ret.columns) :
            (i # j /\ ret.columns[i] \in Canonicos) => ret.columns[i] # ret.columns[j]
        /\ ret.rows = csv.rows

\* C6: a header obtained from an alias by changing letter case, adding whitespace at
\* either end and/or putting a BOM in front (in any combination) is resolved to the
\* same column name as the alias itself.
C6_EncabezadoInsensible ==
    canonizado =>
        \A i \in 1..Len(csv.columns) : \A a \in Alias :
            csv.columns[i] \in Decorados(a) =>
                ret.columns[i]
                    = _canon(read_csv([csv EXCEPT !.columns[i] = a])).ret.columns[i]

\* C7: _canon is pure: after the call the caller's frame is as it was read.
C7_CanonPuro ==
    canonizado => arg = read_csv(csv)

(***************************************************************************)
(* datos.py: datos_procesados.                                             *)
(*                                                                         *)
(* A DataFrame here is [cols, rows]: the set of its column names and its   *)
(* rows, each a function from the column names to cells.                   *)
(***************************************************************************)
REQUERIDAS == <<"location", "date", "new_cases", "people_vaccinated", "population">>

\* lines 73-80: the list `missing`; the call raises KeyError(missing) when it is
\* not empty and returns otherwise
_require(df, cols) == SelectSeq(cols, LAMBDA c : c \notin df.cols)

\* line 132: the rows with no missing cell in the columns of subset
dropna(rows, subset) ==
    SelectSeq(rows, LAMBDA r : \A k \in 1..Len(subset) : notna(r[subset[k]]))

\* row r repeats the key of an earlier row of rows
Repetida(rows, r, subset) ==
    \E j \in 1..Len(rows) : \A k \in 1..Len(subset) : rows[j][subset[k]] = r[subset[k]]

\* faulty variant: keep="last", the last row of each key survives
RECURSIVE drop_duplicates_last(_, _)
drop_duplicates_last(rows, subset) ==
    IF rows = <<>> THEN <<>>
    ELSE IF Repetida(Tail(rows), Head(rows), subset)
         THEN drop_duplicates_last(Tail(rows), subset)
         ELSE <<Head(rows)>> \o drop_duplicates_last(Tail(rows), subset)

\* line 133: keep="first", a row whose key an earlier row has is dropped
RECURSIVE drop_duplicates(_, _)
drop_duplicates(rows, subset) ==
    IF rows = <<>> THEN <<>>
    ELSE LET antes == SubSeq(rows, 1, Len(rows) - 1)
             r == rows[Len(rows)]
         IN  IF Repetida(antes, r, subset)
             THEN drop_duplicates(antes, subset)
             ELSE Append(drop_duplicates(antes, subset), r)

\* line 134: df[df["location"].isin(PAISES)]
isin_PAISES(rows) ==
    SelectSeq(rows, LAMBDA r : \E k \in 1..Len(PAISES) : r["location"] = PAISES[k])

\* lines 137-138: df[cols].reset_index(drop=True)
Seleccionar(rows, cols) ==
    [i \in 1..Len(rows) |-> [c \in {cols[k] : k \in 1..Len(cols)} |-> rows[i][c]]]

\* lines 115-138. `df` is the caller's DataFrame after the call: line 126 works on
\* a copy and every later step builds a new frame.
datos_procesados(leer_datos) ==
    LET df == leer_datos
        missing == _require(df, REQUERIDAS)
    IN  IF missing # <<>>
        THEN [estado |-> "KeyError", df |-> leer_datos, faltan |-> missing,
              filas |-> <<>>]
        ELSE LET sin_na == dropna(df.rows, <<"new_cases", "people_vaccinated">>)
                 unicas == drop_duplicates(sin_na, <<"location", "date">>)
                 paises == isin_PAISES(unicas)
             IN  [estado |-> "ok", df |-> leer_datos, faltan |-> <<>>,
                  filas |-> Seleccionar(paises, REQUERIDAS)]

(***************************************************************************)
(* The leer_datos frames.                                                  *)
(***************************************************************************)
\* the columns a leer_datos frame may have: the required ones and one more
ColumnasCrudas == {REQUERIDAS[k] : k \in 1..Len(REQUERIDAS)} \cup {"iso_code"}

\* a country outside PAISES
OTRO_PAIS == "Chile"

ValoresCrudos(col) ==
    CASE col = "location" -> {PAIS_BASE, OTRO_PAIS}
      [] col = "date" -> {1, 2}
      [] col = "new_cases" -> {Entero(1), NaN}
      [] col = "people_vaccinated" -> {Entero(1), Entero(2), NaN}
      [] col = "population" -> {Entero(100000)}
      [] col = "iso_code" -> {Texto(0)}

FilasCrudas(cols) ==
    {[c \in cols |->
        CASE c = "location" -> loc
          [] c = "date" -> fecha
          [] c = "new_cases" -> nc
          [] c = "people_vaccinated" -> pv
          [] c = "population" -> pob
          [] c = "iso_code" -> iso] :
        loc \in ValoresCrudos("location"), fecha \in ValoresCrudos("date"),
        nc \in ValoresCrudos("new_cases"), pv \in ValoresCrudos("people_vaccinated"),
        pob \in ValoresCrudos("population"), iso \in ValoresCrudos("iso_code")}

InitProcesados ==
    /\ modulo = "procesados"
    /\ datos = <<>>
    /\ ejecutado = "ninguno"
    /\ salida = <<>>
    /\ csv = [columns |-> <<>>, rows |-> <<>>]
    /\ canonizado = FALSE
    /\ arg = [columns |-> <<>>, rows |-> <<>>]
    /\ ret = [columns |-> <<>>, rows |-> <<>>]
    /\ \E cols \in SUBSET ColumnasCrudas : crudo = [cols |-> cols, rows |-> <<>>]
    /\ procesado = SinProcesar
    /\ check = "ninguno"
    /\ tabla = [cols |-> {}, rows |-> <<>>]
    /\ resultado = SinResultado

\* one more row in the leer_datos frame
LeerFilaCruda ==
    /\ modulo = "procesados"
    /\ procesado.estado = "ninguno"
    /\ Len(crudo.rows) < MaxFilasCrudas
    /\ \E r \in FilasCrudas(crudo.cols) :
        crudo' = [crudo EXCEPT !.rows = Append(@, r)]
    /\ UNCHANGED <<modulo, csv, canonizado, arg, ret, procesado,
                   vars_metricas, vars_checks>>

Run_datos_procesados ==
    /\ modulo = "procesados"
    /\ procesado.estado = "ninguno"
    /\ procesado' = datos_procesados(crudo)
    /\ UNCHANGED <<modulo, csv, canonizado, arg, ret, crudo,
                   vars_metricas, vars_checks>>

NextProcesados ==
    \/ LeerFilaCruda
    \/ Run_datos_procesados

SpecProcesados == InitProcesados /\ [][NextProcesados]_vars

(***************************************************************************)
(* Properties of datos_procesados.                                         *)
(***************************************************************************)
\* the required columns that crudo lacks
Faltantes == {REQUERIDAS[k] : k \in 1..Len(REQUERIDAS)} \ crudo.cols

\* row i of crudo has both new_cases and people_vaccinated
Completa(i) ==
    notna(crudo.rows[i]["new_cases"]) /\ notna(crudo.rows[i]["people_vaccinated"])

MismaClave(r1, r2) == r1["location"] = r2["location"] /\ r1["date"] = r2["date"]

\* the rows of crudo that must survive: complete, of a configured country, and with
\* no complete row of the same (location, date) before them
Sobrevive(i) ==
    /\ Completa(i)
    /\ \E k \in 1..Len(PAISES) : crudo.rows[i]["location"] = PAISES[k]
    /\ ~\E j \in 1..(i - 1) : Completa(j) /\ MismaClave(crudo.rows[j], crudo.rows[i])

\* the rows i <= n of crudo that survive, in input order, cut to the required columns
RECURSIVE Esperadas(_)
Esperadas(n) ==
    IF n = 0 THEN <<>>
    ELSE IF Sobrevive(n)
         THEN Append(Esperadas(n - 1),
                     [c \in {REQUERIDAS[k] : k \in 1..Len(REQUERIDAS)} |-> crudo.rows[n][c]])
         ELSE Esperadas(n - 1)

\* C13: on an input with the five required columns the output of datos_procesados
\* has no two rows with the same (location, date), only rows of the configured
\* countries, no row with a missing new_cases or people_vaccinated; the surviving
\* rows keep their input order and of the rows of one (location, date) the first
\* complete one is kept; the input is left unchanged. With a required column absent
\* the call raises a KeyError that names exactly the absent columns and there is no
\* output.
C13_DatosProcesados ==
    procesado.estado # "ninguno" =>
        /\ procesado.df = crudo
        /\ Faltantes # {} =>
            /\ procesado.estado = "KeyError"
            /\ {procesado.faltan[k] : k \in 1..Len(procesado.faltan)} = Faltantes
            /\ Len(procesado.faltan) = Cardinality(Faltantes)
            /\ procesado.filas = <<>>
        /\ Faltantes = {} =>
            /\ procesado.estado = "ok"
            /\ procesado.faltan = <<>>
            /\ \A a, b \in 1..Len(procesado.filas) :
                MismaClave(procesado.filas[a], procesado.filas[b]) => a = b
            /\ \A a \in 1..Len(procesado.filas) :
                /\ \E k \in 1..Len(PAISES) : procesado.filas[a]["location"] = PAISES[k]
                /\ notna(procesado.filas[a]["new_cases"])
                /\ notna(procesado.filas[a]["people_vaccinated"])
            /\ procesado.filas = Esperadas(Len(crudo.rows))

\* C13 witness: three rows of one (location, date) of a configured country, the
\* first without new_cases, the other two complete and different; the second one is
\* the row returned
C13_Witness ==
    /\ procesado.estado = "ok"
    /\ Len(crudo.rows) = 3
    /\ "iso_code" \in crudo.cols
    /\ \A i \in 1..3 :
        crudo.rows[i]["location"] = PAIS_BASE /\ crudo.rows[i]["date"] = 1
    /\ isna(crudo.rows[1]["new_cases"])
    /\ Completa(2) /\ Completa(3)
    /\ crudo.rows[2]["people_vaccinated"] # crudo.rows[3]["people_vaccinated"]
    /\ Len(procesado.filas) = 1
    /\ procesado.filas[1]["people_vaccinated"] = crudo.rows[2]["people_vaccinated"]

(***************************************************************************)
(* checks.py                                                               *)
(*                                                                         *)
(* An AssetCheckResult is [passed, faltan, n, nota, evaluadas]: `faltan`   *)
(* the columns its description names as missing, `n` the count its         *)
(* description reports, `nota` its remark, `evaluadas` the number of rows  *)
(* the check read.                                                         *)
(***************************************************************************)
Resultado(p, faltan, n, nota, evaluadas) ==
    [hecho |-> TRUE, passed |-> p, faltan |-> faltan, n |-> n, nota |-> nota,
     evaluadas |-> evaluadas]

\* faulty variant: only the first missing column is reported
RECURSIVE _columns_missing_primera(_, _)
_columns_missing_primera(df, cols) ==
    IF cols = <<>> THEN <<>>
    ELSE IF Head(cols) \notin df.cols THEN <<Head(cols)>>
    ELSE _columns_missing_primera(df, Tail(cols))

\* lines 13-18: [c for c in cols if c not in df.columns]
RECURSIVE _columns_missing(_, _)
_columns_missing(df, cols) ==
    IF cols = <<>> THEN <<>>
    ELSE (IF Head(cols) \notin df.cols THEN <<Head(cols)>> ELSE <<>>)
         \o _columns_missing(df, Tail(cols))

\* faulty variant: a text that does not parse counts as 0
to_numeric_cero(v) == IF v.k = "str" THEN Entero(0) ELSE v

\* pd.to_numeric(..., errors="coerce") and pd.to_datetime(..., errors="coerce") on a
\* cell: what does not parse becomes missing
to_numeric(v) == IF v.k = "str" THEN NaN ELSE v

\* comparisons of a float cell with a number c: false for a missing cell
MenorQue(v, c) == v.k = "ninf" \/ (v.k = "num" /\ v.n < c * v.d)
MayorQue(v, c) == v.k = "inf" \/ (v.k = "num" /\ v.n > c * v.d)
MenorIgual(v, c) == v.k = "ninf" \/ (v.k = "num" /\ v.n <= c * v.d)

\* the row positions of df; .sum() of a boolean column is the number of positions
\* where it is true
Indice(df) == 1..Len(df.rows)

Cuenta(S) == Cardinality(S)

\* the day "today" of the run, and the latest parseable date of a column
Hoy == Entero(2)

FechasValidas(df) ==
    {to_numeric(df.rows[i]["date"]).n :
        i \in {j \in 1..Len(df.rows) : notna(to_numeric(df.rows[j]["date"]))}}

MaxDe(S) == CHOOSE x \in S : \A y \in S : y <= x

\* lines 25-42
max_date_not_future(leer_datos) ==
    IF "date" \notin leer_datos.cols
    THEN Resultado(FALSE, <<"date">>, 0, "no existe", 0)
    ELSE IF FechasValidas(leer_datos) = {}
    THEN Resultado(FALSE, <<>>, 0, "max(date)=NaT", Len(leer_datos.rows))
    ELSE LET maxd == MaxDe(FechasValidas(leer_datos))
         IN  Resultado(TRUE, <<>>, maxd,
                       IF maxd > Hoy.n THEN "> hoy (advertencia)" ELSE "ok",
                       Len(leer_datos.rows))

\* lines 45-63
keys_not_null(leer_datos) ==
    LET need == <<"location", "date", "population">>
        miss == _columns_missing(leer_datos, need)
    IN  IF miss # <<>>
        THEN Resultado(FALSE, miss, 0, "Faltan columnas", 0)
        ELSE Resultado(TRUE, <<>>,
                       Cuenta({i \in Indice(leer_datos) :
                           \E k \in 1..Len(need) : isna(leer_datos.rows[i][need[k]])}),
                       "filas con nulos en claves (advertencia)",
                       Len(leer_datos.rows))

\* lines 66-80
unique_loc_date(leer_datos) ==
    LET need == <<"location", "date">>
        miss == _columns_missing(leer_datos, need)
        filas == leer_datos.rows
        dup == Cardinality({i \in 1..Len(filas) :
                    \E j \in 1..(i - 1) :
                        /\ filas[j]["location"] = filas[i]["location"]
                        /\ filas[j]["date"] = filas[i]["date"]})
    IN  IF miss # <<>>
        THEN Resultado(FALSE, miss, 0, "Faltan columnas", 0)
        ELSE Resultado(dup = 0, <<>>, dup, "duplicados (location,date)", Len(filas))

\* lines 83-96
population_positive(leer_datos) ==
    IF "population" \notin leer_datos.cols
    THEN Resultado(FALSE, <<"population">>, 0, "Falta columna", 0)
    ELSE LET nonpos == Cuenta({i \in Indice(leer_datos) :
                    MenorIgual(to_numeric(leer_datos.rows[i]["population"]), 0)})
         IN  Resultado(nonpos = 0, <<>>, nonpos, "population<=0", Len(leer_datos.rows))

\* lines 99-112
new_cases_nonnegative(leer_datos) ==
    IF "new_cases" \notin leer_datos.cols
    THEN Resultado(FALSE, <<"new_cases">>, 0, "Falta columna", 0)
    ELSE LET neg == Cuenta({i \in Indice(leer_datos) :
                    MenorQue(to_numeric(leer_datos.rows[i]["new_cases"]), 0)})
         IN  Resultado(neg = 0, <<>>, neg, "new_cases<0", Len(leer_datos.rows))

\* lines 119-132
incidencia_en_rango(metrica) ==
    IF "incidencia_7d" \notin metrica.cols
    THEN Resultado(FALSE, <<"incidencia_7d">>, 0, "Falta", 0)
    ELSE LET serie == [i \in Indice(metrica) |->
                            to_numeric(metrica.rows[i]["incidencia_7d"])]
             fuera == Cuenta({i \in Indice(metrica) :
                    MenorQue(serie[i], 0) \/ MayorQue(serie[i], 2000)})
         IN  Resultado(fuera = 0, <<>>, fuera, "valores fuera de [0,2000]",
                       Len(metrica.rows))

\* lines 135-153: isna().sum() + (~(serie.replace([inf, -inf], pd.NA) > 0)).sum()
factor_crec_valido(metrica) ==
    IF "factor_crec_7d" \notin metrica.cols
    THEN Resultado(FALSE, <<"factor_crec_7d">>, 0, "Falta", 0)
    ELSE LET serie == [i \in Indice(metrica) |->
                            to_numeric(metrica.rows[i]["factor_crec_7d"])]
             nulos == Cuenta({i \in Indice(metrica) : isna(serie[i])})
             nopos == Cuenta({i \in Indice(metrica) :
                    ~MayorQue(ReplaceInf(serie[i]), 0)})
         IN  Resultado(TRUE, <<>>, nulos + nopos, "registros invalidos",
                       Len(metrica.rows))

\* lines 160-173: get_all_checks, with the columns each check requires
Checks ==
    {"max_date_not_future", "keys_not_null", "unique_loc_date", "population_positive",
     "new_cases_nonnegative", "incidencia_en_rango", "factor_crec_valido"}

Requiere(c) ==
    CASE c = "max_date_not_future" -> {"date"}
      [] c = "keys_not_null" -> {"location", "date", "population"}
      [] c = "unique_loc_date" -> {"location", "date"}
      [] c = "population_positive" -> {"population"}
      [] c = "new_cases_nonnegative" -> {"new_cases"}
      [] c = "incidencia_en_rango" -> {"incidencia_7d"}
      [] c = "factor_crec_valido" -> {"factor_crec_7d"}

(***************************************************************************)
(* The checked DataFrames.                                                 *)
(***************************************************************************)
Valores(col) ==
    CASE col = "location" -> {Texto(1), NaN}
      [] col = "date" -> {Entero(1), Entero(3), NaN, Texto(0)}
      [] col = "population" -> {Entero(-1), Entero(0), Entero(1), NaN, Texto(0)}
      [] col = "new_cases" -> {Entero(-1), Entero(0), Entero(1), NaN, Texto(0)}
      [] col = "incidencia_7d" ->
            {Entero(-1), Entero(0), Entero(2000), Entero(2001), NaN, Inf, Texto(0)}
      [] col = "factor_crec_7d" ->
            {Entero(-1), Entero(0), Num(1, 2), Entero(1), NaN, Inf, NInf, Texto(0)}

FilasPosibles(cols) ==
    {r \in [cols -> UNION {Valores(c) : c \in cols}] : \A c \in cols : r[c] \in Valores(c)}

InitChecks ==
    /\ modulo = "checks"
    /\ datos = <<>>
    /\ ejecutado = "ninguno"
    /\ salida = <<>>
    /\ csv = [columns |-> <<>>, rows |-> <<>>]
    /\ canonizado = FALSE
    /\ arg = [columns |-> <<>>, rows |-> <<>>]
    /\ ret = [columns |-> <<>>, rows |-> <<>>]
    /\ crudo = [cols |-> {}, rows |-> <<>>]
    /\ procesado = SinProcesar
    /\ check \in Checks
    /\ \E cols \in SUBSET Requiere(check) : tabla = [cols |-> cols, rows |-> <<>>]
    /\ resultado = SinResultado

\* one more row in the checked frame
LeerFilaCheck ==
    /\ modulo = "checks"
    /\ ~resultado.hecho
    /\ Len(tabla.rows) < MaxFilasCheck
    /\ \E r \in FilasPosibles(tabla.cols) :
        tabla' = [tabla EXCEPT !.rows = Append(@, r)]
    /\ UNCHANGED <<modulo, check, resultado, vars_metricas, vars_datos>>

Run_check(nombre, r) ==
    /\ modulo = "checks"
    /\ check = nombre
    /\ ~resultado.hecho
    /\ resultado' = r
    /\ UNCHANGED <<modulo, check, tabla, vars_metricas, vars_datos>>

Run_max_date_not_future ==
    Run_check("max_date_not_future", max_date_not_future(tabla))

Run_keys_not_null ==
    Run_check("keys_not_null", keys_not_null(tabla))

Run_unique_loc_date ==
    Run_check("unique_loc_date", unique_loc_date(tabla))

Run_population_positive ==
    Run_check("population_positive", population_positive(tabla))

Run_new_cases_nonnegative ==
    Run_check("new_cases_nonnegative", new_cases_nonnegative(tabla))

Run_incidencia_en_rango ==
    Run_check("incidencia_en_rango", incidencia_en_rango(tabla))

Run_factor_crec_valido ==
    Run_check("factor_crec_valido", factor_crec_valido(tabla))

NextChecks ==
    \/ LeerFilaCheck
    \/ Run_max_date_not_future
    \/ Run_keys_not_null
    \/ Run_unique_loc_date
    \/ Run_population_positive
    \/ Run_new_cases_nonnegative
    \/ Run_incidencia_en_rango
    \/ Run_factor_crec_valido

SpecChecks == InitChecks /\ [][NextChecks]_vars

(***************************************************************************)
(* Properties of checks.py.                                                *)
(***************************************************************************)
\* the required columns of check c that tabla lacks
Ausentes(c) == Requiere(c) \ tabla.cols

\* C8: each of the seven checks, run on a frame that lacks one of its required
\* columns, returns passed = False with a description naming exactly the missing
\* columns, and does so without reading any row.
C8_ColumnasFaltantes ==
    (resultado.hecho /\ Ausentes(check) # {}) =>
        /\ resultado.passed = FALSE
        /\ {resultado.faltan[k] : k \in 1..Len(resultado.faltan)} = Ausentes(check)
        /\ resultado.evaluadas = 0

\* C8 witness: a check that otherwise always passes has failed for a frame with
\* rows that lacks two of its columns
C8_Witness ==
    /\ resultado.hecho
    /\ check = "keys_not_null"
    /\ Cardinality(Ausentes(check)) = 2
    /\ tabla.rows # <<>>
    /\ resultado.passed = FALSE

\* an entry of factor_crec_7d that is NaN/missing, infinite or <= 0
Invalido(v) ==
    \/ v.k \in {"nan", "str", "inf", "ninf"}
    \/ v.k = "num" /\ v.n <= 0

\* C9: with the factor_crec_7d column present, factor_crec_valido returns
\* passed = True and reports the number of entries that are NaN/missing, infinite
\* or <= 0, each counted once.
C9_CuentaInvalidos ==
    (resultado.hecho /\ check = "factor_crec_valido" /\ Ausentes(check) = {}) =>
        /\ resultado.passed = TRUE
        /\ resultado.n
            = Cardinality({i \in Indice(tabla) : Invalido(tabla.rows[i]["factor_crec_7d"])})

\* population > 0 holds for the cell (a missing cell is not > 0)
Positiva(v) == v.k = "inf" \/ (v.k = "num" /\ v.n > 0)

\* C10 as stated: with the population column present, population_positive passes
\* if and only if population > 0 holds for all rows.
C10_PasaSiiTodasPositivas ==
    (resultado.hecho /\ check = "population_positive" /\ Ausentes(check) = {}) =>
        (resultado.passed <=>
            \A i \in 1..Len(tabla.rows) : Positiva(to_numeric(tabla.rows[i]["population"])))

\* C10 amended: with the population column present, population_positive passes if
\* and only if no row has a numeric population <= 0; a population that is missing
\* or does not parse as a number is skipped: it neither fails the check nor counts
\* as zero, and the count reported is the number of rows with a numeric
\* population <= 0.
C10_PasaSiiNingunaNoPositiva ==
    (resultado.hecho /\ check = "population_positive" /\ Ausentes(check) = {}) =>
        LET malas == {i \in 1..Len(tabla.rows) :
                        LET v == tabla.rows[i]["population"]
                        IN  v.k = "ninf" \/ (v.k = "num" /\ v.n <= 0)}
        IN  /\ resultado.passed <=> malas = {}
            /\ resultado.n = Cardinality(malas)

\* C10 witness: the check passed a frame with a population that does not parse
C10_Witness ==
    /\ resultado.hecho
    /\ check = "population_positive"
    /\ Ausentes(check) = {}
    /\ resultado.passed
    /\ \E i \in 1..Len(tabla.rows) : tabla.rows[i]["population"].k = "str"

(***************************************************************************)
(* The package: one of its modules is exercised at a time.                 *)
(***************************************************************************)
Init == InitDatos \/ InitProcesados \/ InitChecks \/ InitMetricas

Next ==
    \/ LeerColumna
    \/ Run_canon
    \/ LeerFilaCruda
    \/ Run_datos_procesados
    \/ LeerFilaCheck
    \/ Run_max_date_not_future
    \/ Run_keys_not_null
    \/ Run_unique_loc_date
    \/ Run_population_positive
    \/ Run_new_cases_nonnegative
    \/ Run_incidencia_en_rango
    \/ Run_factor_crec_valido
    \/ LeerFilaBase
    \/ LeerFilaSinPoblacion
    \/ LeerFilaOtra
    \/ Run_metrica_incidencia_7d
    \/ Run_metrica_factor_crec_7d

Spec == Init /\ [][Next]_vars

====
